---- MODULE Spec2Model ----
(***************************************************************************)
(* Model of scale_server: a UDP listener (scale_listener.rs) publishes     *)
(* decoded datagrams to observers; the ScaleServer (scale_server.rs)       *)
(* observes it and forwards each message to the websocket connections      *)
(* whose filter matches, suppressing immediate repeats, and sends          *)
(* heartbeats.  Strings are sequences of byte codes.  Every section of     *)
(* code that runs under one mutex is one atomic action.                    *)
(***************************************************************************)
EXTENDS Integers, Sequences, FiniteSets, TLC

\* ------------------------------------------------------------- bounds
MaxConn == 2       \* connections accepted in one run
MaxQueue == 2      \* messages waiting in the forwarder's channel
MaxRecv == 2       \* datagrams received in one run
DedupConn == 1     \* the same three, where runs of repeated payloads
DedupQueue == 1    \*   are followed (SpecDedup)
DedupRecv == 3
MaxObs == 3        \* observers added and datagrams received in one run,
RegRecv == 1       \*   with other users of the listener (SpecRegistry)
MaxPairs == 2      \* query pairs of a handshake request, the length of a
MaxValLen == 2     \*   query value, and connections and datagrams, where
ParseConn == 1     \*   the queries are enumerated (SpecParse)
ParseRecv == 1
FrameConn == 1     \* connections and datagrams, where the sender ids hold
FrameRecv == 2     \*   the characters JSON treats specially (SpecFrames)
LockConn == 1      \* connections and datagrams, where the two mutexes are
LockRecv == 2      \*   followed one by one (SpecLocks)
BeatConn == 2      \* connections and datagrams, where peers go away silently
BeatRecv == 1      \*   and the heartbeat thread is scheduled fairly (SpecTicker)

\* --------------------------------------------------- program constants
STX == 2           \* the "\x02" separator of a scale message
Comma == 44        \* the "," separator of the ids query value

\* Option<T>: None is the empty set, Some(v) the singleton.
None == {}
Some(v) == {v}
Unwrap(o) == CHOOSE v \in o : TRUE

\* ----------------------------------------------------- pure functions

\* str::split on a one-character pattern: always at least one field.
RECURSIVE split(_, _)
split(s, sep) ==
  IF \A i \in 1..Len(s) : s[i] # sep
  THEN << s >>
  ELSE LET k == CHOOSE i \in 1..Len(s) :
                  s[i] = sep /\ \A j \in 1..(i - 1) : s[j] # sep
       IN  << SubSeq(s, 1, k - 1) >> \o split(SubSeq(s, k + 1, Len(s)), sep)

\* The key "ids" of the query, and another key.
KeyIds == << 105, 100, 115 >>
KeyOther == << 120 >>

RECURSIVE append_ids(_, _)
append_ids(pairs, acc) ==
  IF pairs = << >> THEN acc
  ELSE LET key == Head(pairs)[1]
           val == Head(pairs)[2]
       IN  append_ids(Tail(pairs),
                      IF key = KeyIds THEN acc \o split(val, Comma) ELSE acc)

\* url is url.query_pairs(): None, or Some sequence of <<key, value>>.
parse_scale_ids(url) ==
  LET filter_scale_ids == IF url = None THEN << >>
                          ELSE append_ids(Unwrap(url), << >>)
  IN  IF Len(filter_scale_ids) > 0 THEN Some(filter_scale_ids) ELSE None

\* Mutant of extract_message: more than two fields pass, the rest ignored.
extract_message_lenient(message) ==
  LET splits == split(message, STX)
  IN  IF Len(splits) >= 2 THEN Some(<< splits[1], splits[2] >>) ELSE None

extract_message(message) ==
  LET splits == split(message, STX)
  IN  IF Len(splits) = 2 THEN Some(<< splits[1], splits[2] >>) ELSE None

\* Mutant of matches_filter: the filter is not consulted.
matches_filter_any(connection, scale_id) ==
  TRUE

matches_filter(connection, scale_id) ==
  IF connection.filter_scale_ids = None THEN TRUE
  ELSE LET ids == Unwrap(connection.filter_scale_ids)
       IN  \E i \in 1..Len(ids) : ids[i] = scale_id

\* Mutant of is_duplicate: nothing is a duplicate.
is_duplicate_never(connection, message) ==
  FALSE

is_duplicate(connection, message) ==
  IF connection.last_message_sent = None THEN FALSE
  ELSE Unwrap(connection.last_message_sent) = message

\* One character of the standard base64 alphabet.
B64Char(i) ==
  IF i < 26 THEN 65 + i
  ELSE IF i < 52 THEN 97 + (i - 26)
  ELSE IF i < 62 THEN 48 + (i - 52)
  ELSE IF i = 62 THEN 43 ELSE 47

RECURSIVE to_base64(_)
to_base64(b) ==
  IF Len(b) = 0 THEN << >>
  ELSE IF Len(b) = 1
  THEN << B64Char(b[1] \div 4), B64Char((b[1] % 4) * 16), 61, 61 >>
  ELSE IF Len(b) = 2
  THEN << B64Char(b[1] \div 4), B64Char((b[1] % 4) * 16 + b[2] \div 16),
          B64Char((b[2] % 16) * 4), 61 >>
  ELSE << B64Char(b[1] \div 4), B64Char((b[1] % 4) * 16 + b[2] \div 16),
          B64Char((b[2] % 16) * 4 + b[3] \div 64), B64Char(b[3] % 64) >>
       \o to_base64(SubSeq(b, 4, Len(b)))

\* format!("{{\"scaleId\":\"{}\",\"data\":\"{}\"}}", scale_id, base64)
message_to_json(scale_id, message) ==
  << 123, 34, 115, 99, 97, 108, 101, 73, 100, 34, 58, 34 >> \o scale_id
  \o << 34, 44, 34, 100, 97, 116, 97, 34, 58, 34 >> \o to_base64(message)
  \o << 34, 125 >>

\* ------------------------------------------------- ScaleServer (pure)
\* self is [connections, next_connection_id]; connections maps an id to a
\* Connection [id, filter_scale_ids, last_message_sent].  The sender handle
\* of a connection is the peer's: whether a send on it fails is an input.

Connection_new(id, filter_scale_ids) ==
  [id |-> id, filter_scale_ids |-> filter_scale_ids, last_message_sent |-> None]

ScaleServer_new ==
  [connections |-> << >>, next_connection_id |-> 0]

\* Mutant of add_connection: the id is the number of connections held.
add_connection_by_len(self, filter_scale_ids) ==
  LET id == Cardinality(DOMAIN self.connections)
      connection == Connection_new(id, filter_scale_ids)
  IN  [self |-> [connections |->
                   [c \in DOMAIN self.connections \cup {id} |->
                      IF c = id THEN connection ELSE self.connections[c]],
                 next_connection_id |-> self.next_connection_id + 1],
       id |-> id]

add_connection(self, filter_scale_ids) ==
  LET id == self.next_connection_id
      connection == Connection_new(id, filter_scale_ids)
  IN  [self |-> [connections |->
                   [c \in DOMAIN self.connections \cup {id} |->
                      IF c = id THEN connection ELSE self.connections[c]],
                 next_connection_id |-> self.next_connection_id + 1],
       id |-> id]

\* Mutant of remove_connection: "close" is logged whether or not the
\* connection was there.
remove_connection_logs_always(self, connection_id) ==
  [self |-> [self EXCEPT !.connections =
               [c \in DOMAIN self.connections \ {connection_id} |->
                  self.connections[c]]],
   closed |-> {connection_id}]

\* closed: the ids for which "close" is logged.
remove_connection(self, connection_id) ==
  [self |-> [self EXCEPT !.connections =
               [c \in DOMAIN self.connections \ {connection_id} |->
                  self.connections[c]]],
   closed |-> IF connection_id \in DOMAIN self.connections
              THEN {connection_id} ELSE {}]

RECURSIVE remove_connections(_, _)
remove_connections(self, ids) ==
  IF ids = {} THEN [self |-> self, closed |-> {}]
  ELSE LET id == CHOOSE i \in ids : TRUE
           one == remove_connection(self, id)
           rest == remove_connections(one.self, ids \ {id})
       IN  [self |-> rest.self, closed |-> one.closed \cup rest.closed]

\* Mutant of forward_message: a failing send ends the pass, the connections
\* after it being neither sent to nor updated.
forward_message_abort(self, message, fail) ==
  LET parsed == extract_message(message)
  IN  IF parsed = None
      THEN [self |-> self, sent |-> {}, closed |-> {}, looped |-> self]
      ELSE
        LET scale_id == Unwrap(parsed)[1]
            msg == Unwrap(parsed)[2]
            targets == {id \in DOMAIN self.connections :
                          /\ matches_filter(self.connections[id], scale_id)
                          /\ ~is_duplicate(self.connections[id], msg)}
            erred_connections == targets \cap fail
            reached == IF erred_connections = {} THEN targets
                       ELSE erred_connections
            looped == [self EXCEPT !.connections =
                         [id \in DOMAIN self.connections |->
                            IF id \in reached
                            THEN [self.connections[id] EXCEPT
                                    !.last_message_sent = Some(msg)]
                            ELSE self.connections[id]]]
            removed == remove_connections(looped, erred_connections)
        IN  [self |-> removed.self, looped |-> looped,
             sent |-> {[id |-> id, kind |-> "app", scale_id |-> scale_id,
                        message |-> msg,
                        frame |-> message_to_json(scale_id, msg),
                        ok |-> id \notin fail] : id \in reached},
             closed |-> removed.closed]

\* Mutant of forward_message: the last message is kept with its sender id,
\* and a repeat is a repeat of both.
forward_message_keyed(self, message, fail) ==
  LET parsed == extract_message(message)
  IN  IF parsed = None
      THEN [self |-> self, sent |-> {}, closed |-> {}, looped |-> self]
      ELSE
        LET scale_id == Unwrap(parsed)[1]
            msg == Unwrap(parsed)[2]
            targets == {id \in DOMAIN self.connections :
                          /\ matches_filter(self.connections[id], scale_id)
                          /\ ~is_duplicate(self.connections[id], message)}
            erred_connections == targets \cap fail
            looped == [self EXCEPT !.connections =
                         [id \in DOMAIN self.connections |->
                            IF id \in targets
                            THEN [self.connections[id] EXCEPT
                                    !.last_message_sent = Some(message)]
                            ELSE self.connections[id]]]
            removed == remove_connections(looped, erred_connections)
        IN  [self |-> removed.self, looped |-> looped,
             sent |-> {[id |-> id, kind |-> "app", scale_id |-> scale_id,
                        message |-> msg,
                        frame |-> message_to_json(scale_id, msg),
                        ok |-> id \notin fail] : id \in targets},
             closed |-> removed.closed]

\* Mutant of forward_message: the payload becomes the last message of every
\* connection, sent to or not.
forward_message_marks_all(self, message, fail) ==
  LET parsed == extract_message(message)
  IN  IF parsed = None
      THEN [self |-> self, sent |-> {}, closed |-> {}, looped |-> self]
      ELSE
        LET scale_id == Unwrap(parsed)[1]
            msg == Unwrap(parsed)[2]
            targets == {id \in DOMAIN self.connections :
                          /\ matches_filter(self.connections[id], scale_id)
                          /\ ~is_duplicate(self.connections[id], msg)}
            erred_connections == targets \cap fail
            looped == [self EXCEPT !.connections =
                         [id \in DOMAIN self.connections |->
                            [self.connections[id] EXCEPT
                               !.last_message_sent = Some(msg)]]]
            removed == remove_connections(looped, erred_connections)
        IN  [self |-> removed.self, looped |-> looped,
             sent |-> {[id |-> id, kind |-> "app", scale_id |-> scale_id,
                        message |-> msg,
                        frame |-> message_to_json(scale_id, msg),
                        ok |-> id \notin fail] : id \in targets},
             closed |-> removed.closed]

\* fail: the connections on which a send fails in this pass.
\* sent: one record per send_message call made.
\* looped: self when the loop over the connections ends, before the removals.
forward_message(self, message, fail) ==
  LET parsed == extract_message(message)
  IN  IF parsed = None
      THEN [self |-> self, sent |-> {}, closed |-> {}, looped |-> self]
      ELSE
        LET scale_id == Unwrap(parsed)[1]
            msg == Unwrap(parsed)[2]
            targets == {id \in DOMAIN self.connections :
                          /\ matches_filter(self.connections[id], scale_id)
                          /\ ~is_duplicate(self.connections[id], msg)}
            erred_connections == targets \cap fail
            looped == [self EXCEPT !.connections =
                         [id \in DOMAIN self.connections |->
                            IF id \in targets
                            THEN [self.connections[id] EXCEPT
                                    !.last_message_sent = Some(msg)]
                            ELSE self.connections[id]]]
            removed == remove_connections(looped, erred_connections)
        IN  [self |-> removed.self, looped |-> looped,
             sent |-> {[id |-> id, kind |-> "app", scale_id |-> scale_id,
                        message |-> msg,
                        frame |-> message_to_json(scale_id, msg),
                        ok |-> id \notin fail] : id \in targets},
             closed |-> removed.closed]

\* Mutant of clear_message_history: the last message of every connection is
\* cleared.
clear_message_history_all(self, client_id) ==
  [self EXCEPT !.connections =
     [c \in DOMAIN self.connections |->
        [self.connections[c] EXCEPT !.last_message_sent = None]]]

\* Mutant of clear_message_history: the last message is kept.
clear_message_history_keeps(self, client_id) ==
  self

clear_message_history(self, client_id) ==
  [self EXCEPT !.connections =
     [c \in DOMAIN self.connections |->
        IF c = client_id
        THEN [self.connections[c] EXCEPT !.last_message_sent = None]
        ELSE self.connections[c]]]

\* Mutant of send_heartbeats: the failing connections are not removed.
send_heartbeats_keeps(self, fail) ==
  [self |-> self,
   sent |-> {[id |-> id, kind |-> "heartbeat", frame |-> << >>,
              ok |-> id \notin fail] : id \in DOMAIN self.connections},
   closed |-> {}]

send_heartbeats(self, fail) ==
  LET remove_ids == DOMAIN self.connections \cap fail
      removed == remove_connections(self, remove_ids)
  IN  [self |-> removed.self,
       sent |-> {[id |-> id, kind |-> "heartbeat", frame |-> << >>,
                  ok |-> id \notin fail] : id \in DOMAIN self.connections},
       closed |-> removed.closed]

\* ------------------------------------------------ ScaleListener (pure)
\* self is [next_observer_id, observers]; observers is the set of ids in the
\* map, the Sender under an id being the sending end of that id's channel.

ScaleListener_new ==
  [next_observer_id |-> 0, observers |-> {}]

add_observer(self) ==
  LET id == self.next_observer_id
  IN  [self |-> [next_observer_id |-> self.next_observer_id + 1,
                 observers |-> self.observers \cup {id}],
       id |-> id]

remove_observer(self, id) ==
  [self EXCEPT !.observers = @ \ {id}]

\* Mutant of notify_observers: the observers whose send failed stay.
notify_observers_keeps(self, gone) ==
  [self |-> self,
   delivered |-> self.observers \ gone,
   removed |-> {}]

\* gone: the ids whose receiving end was dropped, so that send fails.
notify_observers(self, gone) ==
  LET remove_ids == self.observers \cap gone
  IN  [self |-> [self EXCEPT !.observers = @ \ remove_ids],
       delivered |-> self.observers \ gone,
       removed |-> remove_ids]

\* Mutant of channel_send: the message goes to the front of the queue.
channel_send_front(queue, item) ==
  << item >> \o queue

\* mpsc Sender::send: the message goes to the back of the queue.
channel_send(queue, item) ==
  Append(queue, item)

\* -------------------------------------------------------------- state
VARIABLES
  main_pc,     \* where the main thread is in ScaleServer::start
  server,      \* the ScaleServer behind its mutex
  listener,    \* the ScaleListener behind its mutex
  rx_gone,     \* observer ids whose Receiver was dropped
  chan,        \* the forwarder's channel: messages sent and not yet received
  fwd_id,      \* the forwarder's observer id, None before it is added
  recv_n,      \* datagrams received so far
  rl,          \* per connection id, where its read loop is
  dead,        \* connection ids whose peer is gone: every send on them fails
  pending,     \* the datagram the listener's thread holds the listener's
               \*   mutex to publish, None when it does not hold it
  ev,          \* the step just taken and its inputs
  out,         \* the send_message calls made by the step just taken
  closes,      \* per connection id, how many "close" lines were logged
  issued,      \* the ids add_connection and add_observer have returned
  delivered,   \* per connection, arrival numbers of the datagrams sent to it
  prev,        \* the latest forward_message call, and whether it repeats
  dd           \* per connection, payloads suppressed, then cleared, then sent

prog == << main_pc, server, listener, rx_gone, chan, fwd_id, recv_n, rl,
           dead, pending >>
vars == << main_pc, server, listener, rx_gone, chan, fwd_id, recv_n, rl,
           dead, pending, ev, out, closes, issued, delivered, prev, dd >>

\* The datagrams the scales send: "5\x021", "5\x02", "7\x021", and two
\* that are no scale message: "51" and "5\x021\x022".
Datagrams ==
  { << 53, STX, 49 >>, << 53, STX >>, << 55, STX, 49 >>,
    << 53, 49 >>, << 53, STX, 49, STX, 50 >> }

\* The queries of the handshake requests: none, "ids=5", "ids=5,7" and "x=5".
AcceptUrls ==
  { None,
    Some(<< << KeyIds, << 53 >> >> >>),
    Some(<< << KeyIds, << 53, Comma, 55 >> >> >>),
    Some(<< << KeyOther, << 53 >> >> >>) }

\* What one specification explores: how many connections are accepted and
\* datagrams received, which ones, and which observations are kept.
Wide ==
  [conns |-> MaxConn, recvs |-> MaxRecv, queue |-> MaxQueue,
   datagrams |-> Datagrams, urls |-> AcceptUrls, track |-> {"order"}]
Deep ==
  [conns |-> DedupConn, recvs |-> DedupRecv, queue |-> DedupQueue,
   datagrams |-> { << 53, STX, 49 >>, << 53, STX >>, << 55, STX, 49 >> },
   urls |-> { None, Some(<< << KeyIds, << 53 >> >> >>) },
   track |-> {"dedup"}]
Narrow ==
  [conns |-> MaxConn, recvs |-> RegRecv, queue |-> MaxQueue,
   datagrams |-> { << 53, STX, 49 >> }, urls |-> { None },
   track |-> {}]

\* Every query of at most MaxPairs pairs, the keys "ids" and "x", the values
\* of at most MaxValLen characters among "," and "5".
RECURSIVE SeqsUpTo(_, _)
SeqsUpTo(S, n) ==
  IF n = 0 THEN { << >> }
  ELSE LET shorter == SeqsUpTo(S, n - 1)
       IN  shorter \cup {Append(q, x) : q \in shorter, x \in S}
QueryPairs == {<< k, v >> : k \in {KeyIds, KeyOther},
                            v \in SeqsUpTo({Comma, 53}, MaxValLen)}
Queries == {None} \cup {Some(q) : q \in SeqsUpTo(QueryPairs, MaxPairs)}
Parse ==
  [conns |-> ParseConn, recvs |-> ParseRecv, queue |-> MaxQueue,
   datagrams |-> { << 53, STX, 49 >>, << STX, 49 >> }, urls |-> Queries,
   track |-> {}]

\* Datagrams whose sender id is "5", a double quote, a backslash, or empty,
\* with payloads of zero, one and two characters.
Frames ==
  [conns |-> FrameConn, recvs |-> FrameRecv, queue |-> MaxQueue,
   datagrams |-> { << 53, STX, 49 >>, << 53, STX >>, << 53, STX, 49, 50 >>,
                   << 34, STX, 49 >>, << 92, STX, 49 >>, << STX, 49 >> },
   urls |-> { None }, track |-> {}]

\* The listener's thread takes the listener's mutex in a step of its own.
Locks ==
  [conns |-> LockConn, recvs |-> LockRecv, queue |-> MaxQueue,
   datagrams |-> { << 53, STX, 49 >> }, urls |-> { None },
   track |-> {"locks"}]

\* Two connections whose peers may go away without a word.
Beat ==
  [conns |-> BeatConn, recvs |-> BeatRecv, queue |-> MaxQueue,
   datagrams |-> { << 53, STX, 49 >> }, urls |-> { None },
   track |-> {"peers"}]

Running == main_pc # "exit"
\* observer_scale_listener holds the server's mutex while it waits for the
\* listener's; every other section takes and releases one mutex in one step.
ServerLockFree == main_pc # "observe_add"
\* The listener's mutex is held across steps by the listener's thread only,
\* from taking it to the end of notify_observers.
ListenerLockFree == pending = None
HeartbeatStarted == main_pc # "start_heartbeat"
Live == DOMAIN server.connections

\* ------------------------------------------------------ observation
\* A datagram read as the scale message <<sender id, payload>> it carries:
\* it carries one when it holds the separator exactly once.
CountSTX(m) == Cardinality({i \in 1..Len(m) : m[i] = STX})
AsScaleMessage(m) ==
  IF CountSTX(m) # 1 THEN None
  ELSE LET k == CHOOSE i \in 1..Len(m) : m[i] = STX
       IN  Some(<< SubSeq(m, 1, k - 1), SubSeq(m, k + 1, Len(m)) >>)
Elements(seq) == {seq[i] : i \in 1..Len(seq)}
Unfiltered(c) == c.filter_scale_ids = None
FilterAllows(c, s) == Unfiltered(c) \/ s \in Elements(Unwrap(c.filter_scale_ids))
StepClosed(e) == IF e.op \in {"forward", "heartbeat", "exit"} THEN e.closed ELSE {}
AppSends(o, id) == {r \in o : r.id = id /\ r.kind = "app"}
Failed(o) == {r.id : r \in {q \in o : ~q.ok}}

\* The observation variables follow the step recorded in ev' and out'.
Monitors(sc) ==
  LET live == DOMAIN server'.connections
      sentTo == {r.id : r \in out'}
      call == IF ev'.op = "forward" THEN AsScaleMessage(ev'.msg) ELSE None
  IN
  /\ closes' = [id \in DOMAIN rl' |->
                  (IF id \in DOMAIN closes THEN closes[id] ELSE 0)
                  + (IF id \in StepClosed(ev') THEN 1 ELSE 0)]
  /\ issued' = [conn |-> issued.conn \cup
                           (IF ev'.op = "accept" THEN {ev'.id} ELSE {}),
                obs |-> issued.obs \cup
                          (IF ev'.op \in {"observe_add", "add_observer"}
                           THEN {ev'.id} ELSE {})]
  /\ delivered' =
       IF "order" \notin sc.track THEN delivered
       ELSE [id \in live |->
               LET old == IF id \in DOMAIN delivered THEN delivered[id] ELSE << >>
               IN  IF ev'.op = "forward" /\ id \in sentTo
                   THEN Append(old, ev'.n) ELSE old]
  /\ prev' =
       IF "dedup" \notin sc.track THEN prev
       ELSE IF ev'.op = "forward"
       THEN LET kept == (prev.regd \ prev.touched) \cap live
                again == IF call # None /\ call = prev.call THEN kept ELSE {}
            IN  [call |-> call, regd |-> Live \cap live,
                 before |-> prev.call, kept |-> kept,
                 keptSent |-> prev.sent \cap kept,
                 sent |-> sentTo \cap live, touched |-> {},
                 again |-> again, first |-> prev.sent \cap again,
                 pinged |-> {}, between |-> prev.pinged \cap again]
       ELSE [call |-> prev.call, regd |-> prev.regd \cap live,
             before |-> prev.before, kept |-> prev.kept \cap live,
             keptSent |-> prev.keptSent \cap live,
             sent |-> prev.sent \cap live,
             touched |-> (prev.touched \cup
                          (IF ev'.op = "other" THEN {ev'.id} ELSE {}))
                         \cap prev.regd \cap live,
             again |-> prev.again \cap live, first |-> prev.first \cap live,
             pinged |-> (prev.pinged \cup
                         (IF ev'.op = "ping" THEN {ev'.id} ELSE {}))
                        \cap prev.regd \cap live,
             between |-> prev.between \cap live]
  /\ dd' =
       IF "dedup" \notin sc.track THEN dd
       ELSE [id \in live |->
               LET old == IF id \in DOMAIN dd THEN dd[id]
                          ELSE [supp |-> {}, reset |-> {}, done |-> {}]
               IN  IF call # None /\ id \in Live
                   THEN LET s == Unwrap(call)[1]
                            p == Unwrap(call)[2]
                        IN  IF id \in sentTo
                            THEN [old EXCEPT !.reset = @ \ {p},
                                             !.done = @ \cup (old.reset \cap {p})]
                            ELSE IF FilterAllows(server.connections[id], s)
                            THEN [old EXCEPT !.supp = @ \cup {p}]
                            ELSE old
                   ELSE IF ev'.op = "other" /\ ev'.id = id
                   THEN [old EXCEPT !.reset = @ \cup old.supp]
                   ELSE old]

Init ==
  /\ main_pc = "start_heartbeat"
  /\ server = ScaleServer_new
  /\ listener = ScaleListener_new
  /\ rx_gone = {}
  /\ chan = << >>
  /\ fwd_id = None
  /\ recv_n = 0
  /\ rl = << >>
  /\ dead = {}
  /\ pending = None
  /\ ev = [op |-> "init"]
  /\ out = {}
  /\ closes = << >>
  /\ issued = [conn |-> {}, obs |-> {}]
  /\ delivered = << >>
  /\ prev = [call |-> None, regd |-> {}, sent |-> {}, touched |-> {},
             again |-> {}, first |-> {}, pinged |-> {}, between |-> {},
             before |-> None, kept |-> {}, keptSent |-> {}]
  /\ dd = << >>

\* ---------------------------------------------------- the main thread
StartHeartbeat(sc) ==
  /\ main_pc = "start_heartbeat"
  /\ main_pc' = "observe_lock"
  /\ UNCHANGED << server, listener, rx_gone, chan, fwd_id, recv_n, rl,
                  dead, pending >>
  /\ ev' = [op |-> "start_heartbeat"] /\ out' = {}
  /\ Monitors(sc)

ObserveLock(sc) ==
  /\ main_pc = "observe_lock"
  /\ main_pc' = "observe_add"
  /\ UNCHANGED << server, listener, rx_gone, chan, fwd_id, recv_n, rl,
                  dead, pending >>
  /\ ev' = [op |-> "observe_lock"] /\ out' = {}
  /\ Monitors(sc)

ObserveAdd(sc) ==
  /\ main_pc = "observe_add"
  /\ ListenerLockFree
  /\ LET r == add_observer(listener)
     IN  /\ listener' = r.self
         /\ fwd_id' = Some(r.id)
         /\ ev' = [op |-> "observe_add", id |-> r.id]
  /\ main_pc' = "bind"
  /\ UNCHANGED << server, rx_gone, chan, recv_n, rl,
                  dead, pending >>
  /\ out' = {}
  /\ Monitors(sc)

BindOk(sc) ==
  /\ main_pc = "bind"
  /\ main_pc' = "accept"
  /\ UNCHANGED << server, listener, rx_gone, chan, fwd_id, recv_n, rl,
                  dead, pending >>
  /\ ev' = [op |-> "bind_ok"] /\ out' = {}
  /\ Monitors(sc)

BindFail(sc) ==
  /\ main_pc = "bind"
  /\ main_pc' = "exit"
  /\ UNCHANGED << server, listener, rx_gone, chan, fwd_id, recv_n, rl,
                  dead, pending >>
  /\ ev' = [op |-> "bind_err"] /\ out' = {}
  /\ Monitors(sc)

\* server.accept() and the handshake succeed: the connection is registered
\* and its read loop is spawned.
AcceptConnection(sc) ==
  /\ main_pc = "accept"
  /\ server.next_connection_id < sc.conns
  /\ \E url \in sc.urls :
       LET r == add_connection(server, parse_scale_ids(url))
       IN  /\ server' = r.self
           /\ rl' = [c \in DOMAIN rl \cup {r.id} |->
                       IF c = r.id THEN "Reading" ELSE rl[c]]
           /\ ev' = [op |-> "accept", id |-> r.id, url |-> url]
  /\ UNCHANGED << main_pc, listener, rx_gone, chan, fwd_id, recv_n,
                  dead, pending >>
  /\ out' = {}
  /\ Monitors(sc)

\* read_request, Url::parse or the response fails: logged, the loop goes on.
HandshakeFail(sc) ==
  /\ main_pc = "accept"
  /\ UNCHANGED << main_pc, server, listener, rx_gone, chan, fwd_id, recv_n, rl,
                  dead, pending >>
  /\ ev' = [op |-> "handshake_err"] /\ out' = {}
  /\ Monitors(sc)

\* try!(server.accept()) fails: start_websocket_server returns the error,
\* main logs it and returns, and the process ends.
AcceptFail(sc) ==
  /\ main_pc = "accept"
  /\ main_pc' = "exit"
  /\ UNCHANGED << server, listener, rx_gone, chan, fwd_id, recv_n, rl,
                  dead, pending >>
  /\ ev' = [op |-> "accept_err"] /\ out' = {}
  /\ Monitors(sc)

\* ----------------------------------------------- the listener's thread
\* Where the mutexes are followed one by one: a datagram is received and
\* decoded, and the listener's mutex is taken for notify_observers.
RecvLock(sc) ==
  /\ Running
  /\ "locks" \in sc.track
  /\ ListenerLockFree
  /\ recv_n < sc.recvs
  /\ (fwd_id \subseteq listener.observers /\ fwd_id # None) => Len(chan) < sc.queue
  /\ \E msg \in sc.datagrams : pending' = Some(msg)
  /\ UNCHANGED << main_pc, server, listener, rx_gone, chan, fwd_id, recv_n, rl,
                  dead >>
  /\ ev' = [op |-> "recv_lock"] /\ out' = {}
  /\ Monitors(sc)

\* Mutant of RecvDatagram: notify_observers also needs the server's mutex.
RecvDatagram_locks_server(sc) ==
  /\ Running
  /\ ServerLockFree
  /\ IF "locks" \in sc.track THEN pending # None
     ELSE /\ ListenerLockFree
          /\ recv_n < sc.recvs
          /\ (fwd_id \subseteq listener.observers /\ fwd_id # None)
               => Len(chan) < sc.queue
  /\ \E msg \in (IF "locks" \in sc.track THEN pending ELSE sc.datagrams) :
       LET r == notify_observers(listener, rx_gone)
           n == recv_n + 1
       IN  /\ listener' = r.self
           /\ chan' = IF fwd_id # None /\ fwd_id \subseteq r.delivered
                      THEN channel_send(chan, [n |-> n, msg |-> msg])
                      ELSE chan
           /\ recv_n' = n
           /\ ev' = [op |-> "recv", delivered |-> r.delivered,
                     removed |-> r.removed]
  /\ pending' = None
  /\ UNCHANGED << main_pc, server, rx_gone, fwd_id, rl, dead >>
  /\ out' = {}
  /\ Monitors(sc)

\* notify_observers under the listener's mutex, taken in this step or, where
\* the mutexes are followed one by one, in the step before.
RecvDatagram(sc) ==
  /\ Running
  /\ IF "locks" \in sc.track THEN pending # None
     ELSE /\ ListenerLockFree
          /\ recv_n < sc.recvs
          /\ (fwd_id \subseteq listener.observers /\ fwd_id # None)
               => Len(chan) < sc.queue
  /\ \E msg \in (IF "locks" \in sc.track THEN pending ELSE sc.datagrams) :
       LET r == notify_observers(listener, rx_gone)
           n == recv_n + 1
       IN  /\ listener' = r.self
           /\ chan' = IF fwd_id # None /\ fwd_id \subseteq r.delivered
                      THEN channel_send(chan, [n |-> n, msg |-> msg])
                      ELSE chan
           /\ recv_n' = n
           /\ ev' = [op |-> "recv", delivered |-> r.delivered,
                     removed |-> r.removed]
  /\ pending' = None
  /\ UNCHANGED << main_pc, server, rx_gone, fwd_id, rl, dead >>
  /\ out' = {}
  /\ Monitors(sc)

\* recv_from fails, or the datagram is not UTF-8: logged, the loop goes on.
RecvError(sc) ==
  /\ Running
  /\ ListenerLockFree
  /\ UNCHANGED prog
  /\ \E op \in {"recv_err", "decode_err"} : ev' = [op |-> op]
  /\ out' = {}
  /\ Monitors(sc)

\* ------------------------------------- other users of the listener's API
AddObserver(sc) ==
  /\ Running
  /\ ListenerLockFree
  /\ listener.next_observer_id + (IF fwd_id = None THEN 1 ELSE 0) < MaxObs
  /\ LET r == add_observer(listener)
     IN  /\ listener' = r.self
         /\ ev' = [op |-> "add_observer", id |-> r.id]
  /\ UNCHANGED << main_pc, server, rx_gone, chan, fwd_id, recv_n, rl,
                  dead, pending >>
  /\ out' = {}
  /\ Monitors(sc)

RemoveObserver(sc) ==
  /\ Running
  /\ ListenerLockFree
  /\ \E id \in (0..(listener.next_observer_id - 1)) \ fwd_id :
       /\ listener' = remove_observer(listener, id)
       /\ ev' = [op |-> "remove_observer", id |-> id]
  /\ UNCHANGED << main_pc, server, rx_gone, chan, fwd_id, recv_n, rl,
                  dead, pending >>
  /\ out' = {}
  /\ Monitors(sc)

DropReceiver(sc) ==
  /\ Running
  /\ \E id \in ((0..(listener.next_observer_id - 1)) \ fwd_id) \ rx_gone :
       /\ rx_gone' = rx_gone \cup {id}
       /\ ev' = [op |-> "drop_receiver", id |-> id]
  /\ UNCHANGED << main_pc, server, listener, chan, fwd_id, recv_n, rl,
                  dead, pending >>
  /\ out' = {}
  /\ Monitors(sc)

\* ----------------------------------------------- the forwarder's thread
\* One iteration of "for message in rx": receive, lock, forward_message.
ForwardMessage(sc) ==
  /\ Running
  /\ fwd_id # None
  /\ ServerLockFree
  /\ chan # << >>
  /\ \E fail \in SUBSET Live :
       LET r == forward_message(server, Head(chan).msg, fail)
       IN  /\ fail \subseteq {s.id : s \in r.sent}
           /\ dead \cap {s.id : s \in r.sent} \subseteq fail
           /\ server' = r.self
           /\ out' = r.sent
           /\ ev' = [op |-> "forward", n |-> Head(chan).n,
                     msg |-> Head(chan).msg, closed |-> r.closed]
  /\ chan' = Tail(chan)
  /\ UNCHANGED << main_pc, listener, rx_gone, fwd_id, recv_n, rl,
                  dead, pending >>
  /\ Monitors(sc)

\* ----------------------------------------------- the heartbeat thread
SendHeartbeats(sc) ==
  /\ Running
  /\ HeartbeatStarted
  /\ ServerLockFree
  /\ \E fail \in SUBSET Live :
       LET r == send_heartbeats(server, fail)
       IN  /\ dead \cap Live \subseteq fail
           /\ server' = r.self
           /\ out' = r.sent
           /\ ev' = [op |-> "heartbeat", closed |-> r.closed]
  /\ UNCHANGED << main_pc, listener, rx_gone, chan, fwd_id, recv_n, rl,
                  dead, pending >>
  /\ Monitors(sc)

\* -------------------------------------------------------- the peers
\* The peer of a connection goes away without a close frame or a read error:
\* from now on every send on the connection fails.
PeerFails(sc) ==
  /\ Running
  /\ "peers" \in sc.track
  /\ \E id \in Live \ dead :
       /\ dead' = dead \cup {id}
       /\ ev' = [op |-> "peer_fails", id |-> id]
  /\ UNCHANGED << main_pc, server, listener, rx_gone, chan, fwd_id, recv_n, rl,
                  pending >>
  /\ out' = {}
  /\ Monitors(sc)

\* ---------------------------------------------------- the read loops
\* Mutant of ReadPing: a ping clears the message history as other frames do.
ReadPing_clears(sc) ==
  /\ Running
  /\ ServerLockFree
  /\ \E id \in DOMAIN rl :
       /\ rl[id] = "Reading"
       /\ server' = clear_message_history(server, id)
       /\ ev' = [op |-> "ping", id |-> id]
  /\ UNCHANGED << main_pc, listener, rx_gone, chan, fwd_id, recv_n, rl,
                  dead, pending >>
  /\ out' = {}
  /\ Monitors(sc)

ReadPing(sc) ==
  /\ Running
  /\ \E id \in DOMAIN rl :
       /\ rl[id] = "Reading"
       /\ ev' = [op |-> "ping", id |-> id]
  /\ UNCHANGED prog
  /\ out' = {}
  /\ Monitors(sc)

\* Mutant of ReadOther: the frame also ends the loop.
ReadOther_leaves(sc) ==
  /\ Running
  /\ ServerLockFree
  /\ \E id \in DOMAIN rl :
       /\ rl[id] = "Reading"
       /\ server' = clear_message_history(server, id)
       /\ rl' = [rl EXCEPT ![id] = "Closed"]
       /\ ev' = [op |-> "other", id |-> id]
  /\ UNCHANGED << main_pc, listener, rx_gone, chan, fwd_id, recv_n,
                  dead, pending >>
  /\ out' = {}
  /\ Monitors(sc)

ReadOther(sc) ==
  /\ Running
  /\ ServerLockFree
  /\ \E id \in DOMAIN rl :
       /\ rl[id] = "Reading"
       /\ server' = clear_message_history(server, id)
       /\ ev' = [op |-> "other", id |-> id]
  /\ UNCHANGED << main_pc, listener, rx_gone, chan, fwd_id, recv_n, rl,
                  dead, pending >>
  /\ out' = {}
  /\ Monitors(sc)

\* A close frame, or a read error (logged): the loop is left.
ReadBreak(sc) ==
  /\ Running
  /\ \E id \in DOMAIN rl :
       /\ rl[id] = "Reading"
       /\ rl' = [rl EXCEPT ![id] = "Closed"]
       /\ \E op \in {"close", "read_err"} : ev' = [op |-> op, id |-> id]
  /\ UNCHANGED << main_pc, server, listener, rx_gone, chan, fwd_id, recv_n,
                  dead, pending >>
  /\ out' = {}
  /\ Monitors(sc)

\* After the loop: remove_connection, and the thread ends.
ReadExit(sc) ==
  /\ Running
  /\ ServerLockFree
  /\ \E id \in DOMAIN rl :
       /\ rl[id] = "Closed"
       /\ LET r == remove_connection(server, id)
          IN  /\ server' = r.self
              /\ ev' = [op |-> "exit", id |-> id, closed |-> r.closed]
       /\ rl' = [rl EXCEPT ![id] = "Done"]
  /\ UNCHANGED << main_pc, listener, rx_gone, chan, fwd_id, recv_n,
                  dead, pending >>
  /\ out' = {}
  /\ Monitors(sc)

Step(sc) ==
  \/ StartHeartbeat(sc) \/ ObserveLock(sc) \/ ObserveAdd(sc)
  \/ BindOk(sc) \/ BindFail(sc)
  \/ AcceptConnection(sc) \/ HandshakeFail(sc) \/ AcceptFail(sc)
  \/ RecvDatagram(sc) \/ RecvError(sc)
  \/ ForwardMessage(sc) \/ SendHeartbeats(sc)
  \/ ReadPing(sc) \/ ReadOther(sc) \/ ReadBreak(sc) \/ ReadExit(sc)

\* The program.
Next == Step(Wide)
Spec == Init /\ [][Next]_vars

\* The program, with fewer connections and more datagrams.
NextDedup == Step(Deep)
SpecDedup == Init /\ [][NextDedup]_vars

\* The program and other users of the listener's public functions.
NextRegistry ==
  \/ Step(Narrow)
  \/ AddObserver(Narrow) \/ RemoveObserver(Narrow) \/ DropReceiver(Narrow)
SpecRegistry == Init /\ [][NextRegistry]_vars

\* The program, over every query of the handshake request.
NextParse == Step(Parse)
SpecParse == Init /\ [][NextParse]_vars

\* The program with peers that go away silently; the heartbeat thread, a
\* loop of send_heartbeats and a sleep of one second, is never starved.
NextTicker == Step(Beat) \/ PeerFails(Beat)
SpecTicker == Init /\ [][NextTicker]_vars /\ WF_vars(SendHeartbeats(Beat))

\* The same, where instead a read loop that has left its loop is never
\* starved of the server's mutex.
SpecReadLoop == Init /\ [][NextTicker]_vars /\ WF_vars(ReadExit(Beat))

\* The program, the listener's mutex being taken in a step of its own.
NextLocks == Step(Locks) \/ RecvLock(Locks)
SpecLocks == Init /\ [][NextLocks]_vars

\* The program, over sender ids of every kind of character.
NextFrames == Step(Frames)
SpecFrames == Init /\ [][NextFrames]_vars

\* ------------------------------------------------------------ claims

\* C1 as stated: when a forward_message call repeats the call before it (same
\* sender id, same payload), then for every unfiltered connection that was
\* registered at both calls, is still registered, and had no frame other than
\* ping or close processed in between, exactly one of the two calls sent it
\* an application frame.
C1_ExactlyOneOfTwo ==
  \A c \in prev.again \cap Live :
    Unfiltered(server.connections[c]) =>
      (IF c \in prev.first THEN 1 ELSE 0) + (IF c \in prev.sent THEN 1 ELSE 0) = 1

\* C1 amended: under the same conditions the second call sends the connection
\* no application frame, so the two calls send at most one, whatever heartbeats
\* came in between.
C1_SecondSuppressed ==
  \A c \in prev.again \cap Live :
    Unfiltered(server.connections[c]) => c \notin prev.sent

\* The first of two such calls sent a frame to an unfiltered connection and
\* the second did not.
C1_Witness ==
  \E c \in (prev.again \cap prev.first \cap Live) \ prev.sent :
    Unfiltered(server.connections[c])

\* C2: once a forward of payload p was suppressed for a connection and its
\* read loop then processed a frame other than ping or close, the next
\* forward of p from a sender its filter allows sends it a frame.
C2_DedupReset ==
  [][ev'.op = "forward" /\ AsScaleMessage(ev'.msg) # None =>
        LET s == Unwrap(AsScaleMessage(ev'.msg))[1]
            p == Unwrap(AsScaleMessage(ev'.msg))[2]
        IN  \A c \in Live \cap DOMAIN dd :
              (p \in dd[c].reset /\ FilterAllows(server.connections[c], s)) =>
                \E r \in AppSends(out', c) : r.message = p /\ r.scale_id = s
     ]_vars

\* A payload was suppressed for a connection, then cleared by the read loop,
\* then forwarded again and sent.
C2_Witness ==
  \E c \in Live \cap DOMAIN dd : dd[c].done # {}

\* C3: a connection with a filter is never sent an application frame of a
\* sender id outside the filter; an unfiltered connection is sent the frame
\* of every forwarded sender id unless its payload equals the last one sent;
\* the filter of a registered connection never changes.
C3_FilterCorrect ==
  [][/\ \A r \in out' :
          r.kind = "app" =>
            /\ ev'.op = "forward"
            /\ AsScaleMessage(ev'.msg) = Some(<< r.scale_id, r.message >>)
            /\ r.id \in Live
            /\ FilterAllows(server.connections[r.id], r.scale_id)
     /\ (ev'.op = "forward" /\ AsScaleMessage(ev'.msg) # None) =>
          \A c \in Live :
            (/\ Unfiltered(server.connections[c])
             /\ server.connections[c].last_message_sent
                  # Some(Unwrap(AsScaleMessage(ev'.msg))[2]))
            => AppSends(out', c) # {}
     /\ \A c \in Live \cap DOMAIN server'.connections :
          server'.connections[c].filter_scale_ids
            = server.connections[c].filter_scale_ids
    ]_vars

\* A forward pass sent the frame of a sender to an unfiltered connection and
\* not to a registered connection whose filter does not hold that sender.
C3_Witness ==
  /\ ev.op = "forward"
  /\ \E c1 \in Live, c2 \in Live :
       /\ ~Unfiltered(server.connections[c1])
       /\ Unfiltered(server.connections[c2])
       /\ AppSends(out, c1) = {}
       /\ \E r \in AppSends(out, c2) :
            ~FilterAllows(server.connections[c1], r.scale_id)

\* The ids a query gives, as the claim reads it: the comma-separated fields
\* of the values of its "ids" pairs, an empty value giving none.
FieldsOf(v) ==
  {SubSeq(v, i, j) : i \in 1..(Len(v) + 1), j \in 0..Len(v)}
IdsOfValue(v) ==
  IF v = << >> THEN {}
  ELSE {f \in FieldsOf(v) :
          /\ Comma \notin Elements(f)
          /\ \E i \in 1..(Len(v) + 1) :
               /\ f = SubSeq(v, i, i + Len(f) - 1)
               /\ (i = 1 \/ v[i - 1] = Comma)
               /\ (i + Len(f) - 1 = Len(v) \/ v[i + Len(f)] = Comma)}
IdsOfUrl(url) ==
  IF url = None THEN {}
  ELSE UNION {IdsOfValue(Unwrap(url)[i][2]) :
                i \in {k \in 1..Len(Unwrap(url)) : Unwrap(url)[k][1] = KeyIds}}

\* C4 as stated: a connection whose request has no "ids" pair, or only empty
\* "ids" values, is registered without a filter and is allowed every sender
\* id; any other is registered with the set of its comma-separated ids.
C4_FilterDerivation ==
  ev.op = "accept" =>
    LET c == server.connections[ev.id]
    IN  IF IdsOfUrl(ev.url) = {}
        THEN /\ c.filter_scale_ids = None
             /\ \A s \in {<< 53 >>, << 55 >>, << >>} : matches_filter(c, s)
        ELSE /\ c.filter_scale_ids # None
             /\ Elements(Unwrap(c.filter_scale_ids)) = IdsOfUrl(ev.url)

\* C5: forwarding a datagram that holds the separator not exactly once sends
\* nothing and leaves the connections and the next id as they were.
C5_MalformedDropped ==
  [][(ev'.op = "forward" /\ CountSTX(ev'.msg) # 1) =>
        /\ out' = {}
        /\ server' = server
        /\ ev'.closed = {}
    ]_vars

\* A datagram with two separators was forwarded while a connection that
\* would have taken any frame was registered.
C5_Witness ==
  /\ ev.op = "forward"
  /\ CountSTX(ev.msg) > 1
  /\ \E c \in Live : /\ Unfiltered(server.connections[c])
                     /\ server.connections[c].last_message_sent = None

\* C6: a connection on which a send fails in a forward or heartbeat pass is
\* out of the registry when the pass ends; "close" is logged for a
\* connection exactly when it is removed, once, whoever removes it; and no
\* pass sends on a connection that is not registered.
C6_PrunedOnce ==
  [][/\ \A id \in Failed(out') :
          id \notin DOMAIN server'.connections /\ id \in ev'.closed
     /\ \A r \in out' : r.id \in Live /\ closes[r.id] = 0
     /\ \A id \in DOMAIN rl' :
          closes'[id] = IF id \in DOMAIN server'.connections THEN 0 ELSE 1
    ]_vars

\* A send failed on a connection whose read loop had already left its loop
\* and was about to remove it.
C6_Witness ==
  /\ ev.op \in {"forward", "heartbeat"}
  /\ \E id \in Failed(out) : rl[id] = "Closed" /\ closes[id] = 1

\* C7: the frames sent to a connection are for datagrams in the order the
\* listener received them.
C7_ArrivalOrder ==
  \A c \in DOMAIN delivered :
    \A i \in 1..Len(delivered[c]), j \in 1..Len(delivered[c]) :
      i < j => delivered[c][i] < delivered[c][j]

\* Frames for two datagrams have been sent to one connection.
C7_Witness ==
  /\ ev.op = "forward"
  /\ \E c \in DOMAIN delivered : Len(delivered[c]) >= 2

\* C8 as stated: no failure of accepting or handshaking ends the accept loop,
\* and a failed handshake registers no connection.
C8_AcceptLoopForever ==
  [][main_pc = "accept" =>
        /\ main_pc' = "accept"
        /\ ev'.op = "handshake_err" => server' = server
    ]_vars

\* C9: in a pass where some send fails, every other connection registered at
\* the start is treated as in the same pass without failure: a forward pass
\* sends it the frame and sets its last message when its filter allows the
\* sender and the payload is new, and else leaves it alone; a heartbeat pass
\* sends it the empty frame and leaves it alone; and it stays registered.
C9_FailureIsolation ==
  [][/\ ev'.op = "forward" =>
          LET quiet == forward_message(server, ev'.msg, {})
              call == AsScaleMessage(ev'.msg)
          IN  \A c \in Live \ Failed(out') :
                /\ c \in DOMAIN server'.connections
                /\ server'.connections[c] = quiet.self.connections[c]
                /\ {r \in out' : r.id = c} = {r \in quiet.sent : r.id = c}
                /\ IF /\ call # None
                      /\ FilterAllows(server.connections[c], Unwrap(call)[1])
                      /\ server.connections[c].last_message_sent
                           # Some(Unwrap(call)[2])
                   THEN /\ \E r \in AppSends(out', c) : r.ok
                        /\ server'.connections[c] =
                             [server.connections[c] EXCEPT
                                !.last_message_sent = Some(Unwrap(call)[2])]
                   ELSE /\ AppSends(out', c) = {}
                        /\ server'.connections[c] = server.connections[c]
     /\ ev'.op = "heartbeat" =>
          /\ \A c \in Live :
               \E r \in out' : r.id = c /\ r.kind = "heartbeat" /\ r.frame = << >>
          /\ \A c \in Live \ Failed(out') :
               /\ c \in DOMAIN server'.connections
               /\ server'.connections[c] = server.connections[c]
    ]_vars

\* A forward pass in which one send failed and another connection was sent
\* the frame and remembers its payload.
C9_Witness ==
  /\ ev.op = "forward"
  /\ Failed(out) # {}
  /\ \E r \in out : /\ r.ok /\ r.id \in Live /\ r.id \notin Failed(out)
                    /\ server.connections[r.id].last_message_sent = Some(r.message)

\* C10: the id add_connection returns is greater than every id it returned
\* before, registered or removed since, and so is the id add_observer
\* returns; adding a connection leaves the observer counter alone and
\* adding an observer leaves the connection counter alone.
C10_IdsNeverReused ==
  [][/\ ev'.op = "accept" =>
          /\ \A j \in issued.conn : j < ev'.id
          /\ ev'.id \in DOMAIN server'.connections
          /\ listener'.next_observer_id = listener.next_observer_id
     /\ ev'.op \in {"observe_add", "add_observer"} =>
          /\ \A j \in issued.obs : j < ev'.id
          /\ ev'.id \in listener'.observers
          /\ server'.next_connection_id = server.next_connection_id
    ]_vars

\* A connection is added after an earlier one was removed, an observer
\* added later than a removed one is in the map, and the counters differ.
C10_Witness ==
  /\ ev.op = "accept"
  /\ \E i \in issued.conn : i < ev.id /\ i \notin Live
  /\ \E j \in issued.obs, k \in issued.obs :
       j < k /\ j \notin listener.observers /\ k \in listener.observers
  /\ server.next_connection_id # listener.next_observer_id

\* C11: a heartbeat pass makes one send, of the empty frame, on every
\* connection registered when it starts, and leaves registered exactly those
\* on which the send succeeded, unchanged; and while the process runs, a
\* registered connection whose peer is gone is eventually removed, whether
\* or not a datagram arrives or its read loop leaves its loop.
C11_HeartbeatPrunes ==
  /\ [][ev'.op = "heartbeat" =>
          /\ \A c \in Live :
               /\ Cardinality({r \in out' : r.id = c}) = 1
               /\ \A r \in out' : r.id = c =>
                    r.kind = "heartbeat" /\ r.frame = << >>
          /\ {r.id : r \in out'} = Live
          /\ DOMAIN server'.connections = Live \ Failed(out')
          /\ \A c \in Live \ Failed(out') :
               server'.connections[c] = server.connections[c]
      ]_vars
  /\ \A id \in 0..(BeatConn - 1) :
       (id \in Live /\ id \in dead) ~> (id \notin Live \/ ~Running)

\* A heartbeat pass removed a connection whose peer was gone, no datagram
\* having arrived and its read loop still reading.
C11_Witness ==
  /\ ev.op = "heartbeat"
  /\ recv_n = 0
  /\ \E id \in ev.closed \cap dead : rl[id] = "Reading" /\ id \notin Live

\* A reader of JSON text, as far as the frames need one: strings with their
\* escapes, and an object of two members with string values.
JsonFail == [ok |-> FALSE, val |-> << >>, next |-> 0]
HexVal(c) ==
  IF c >= 48 /\ c <= 57 THEN c - 48
  ELSE IF c >= 97 /\ c <= 102 THEN c - 87
  ELSE IF c >= 65 /\ c <= 70 THEN c - 55
  ELSE -1
EscapeVal(c) ==
  IF c \in {34, 92, 47} THEN c
  ELSE IF c = 98 THEN 8
  ELSE IF c = 102 THEN 12
  ELSE IF c = 110 THEN 10
  ELSE IF c = 114 THEN 13
  ELSE IF c = 116 THEN 9
  ELSE -1
\* The characters of a string from position i, after the opening quote, up
\* to the closing quote.
RECURSIVE JsonChars(_, _, _)
JsonChars(f, i, acc) ==
  IF i > Len(f) THEN JsonFail
  ELSE IF f[i] = 34 THEN [ok |-> TRUE, val |-> acc, next |-> i + 1]
  ELSE IF f[i] < 32 THEN JsonFail
  ELSE IF f[i] # 92 THEN JsonChars(f, i + 1, Append(acc, f[i]))
  ELSE IF i + 1 > Len(f) THEN JsonFail
  ELSE IF f[i + 1] = 117
  THEN IF /\ i + 5 <= Len(f)
          /\ \A k \in 2..5 : HexVal(f[i + k]) >= 0
       THEN JsonChars(f, i + 6,
                      Append(acc, HexVal(f[i + 2]) * 4096 + HexVal(f[i + 3]) * 256
                                  + HexVal(f[i + 4]) * 16 + HexVal(f[i + 5])))
       ELSE JsonFail
  ELSE IF EscapeVal(f[i + 1]) >= 0
  THEN JsonChars(f, i + 2, Append(acc, EscapeVal(f[i + 1])))
  ELSE JsonFail
JsonString(f, i) ==
  IF i <= Len(f) /\ f[i] = 34 THEN JsonChars(f, i + 1, << >>) ELSE JsonFail
Expect(f, i, c) == i <= Len(f) /\ f[i] = c
\* {"k1":"v1","k2":"v2"} read as <<k1, v1, k2, v2>>, None if it is not that.
ReadFrame(f) ==
  LET k1 == JsonString(f, 2)
      v1 == JsonString(f, k1.next + 1)
      k2 == JsonString(f, v1.next + 1)
      v2 == JsonString(f, k2.next + 1)
  IN  IF /\ Expect(f, 1, 123)
         /\ k1.ok /\ Expect(f, k1.next, 58)
         /\ v1.ok /\ Expect(f, v1.next, 44)
         /\ k2.ok /\ Expect(f, k2.next, 58)
         /\ v2.ok /\ Expect(f, v2.next, 125)
         /\ v2.next = Len(f)
      THEN Some(<< k1.val, v1.val, k2.val, v2.val >>)
      ELSE None

\* A reader of standard base64 with padding.
B64Val(c) ==
  IF c >= 65 /\ c <= 90 THEN c - 65
  ELSE IF c >= 97 /\ c <= 122 THEN c - 71
  ELSE IF c >= 48 /\ c <= 57 THEN c + 4
  ELSE IF c = 43 THEN 62
  ELSE IF c = 47 THEN 63
  ELSE -1
RECURSIVE FromBase64(_)
FromBase64(d) ==
  IF d = << >> THEN Some(<< >>)
  ELSE IF Len(d) < 4 \/ B64Val(d[1]) < 0 \/ B64Val(d[2]) < 0 THEN None
  ELSE LET a == B64Val(d[1])
           b == B64Val(d[2])
           c == B64Val(d[3])
           e == B64Val(d[4])
       IN  IF d[3] = 61
           THEN IF d[4] = 61 /\ Len(d) = 4 /\ b % 16 = 0
                THEN Some(<< a * 4 + b \div 16 >>) ELSE None
           ELSE IF c < 0 THEN None
           ELSE IF d[4] = 61
           THEN IF Len(d) = 4 /\ c % 4 = 0
                THEN Some(<< a * 4 + b \div 16, (b % 16) * 16 + c \div 4 >>)
                ELSE None
           ELSE IF e < 0 THEN None
           ELSE LET rest == FromBase64(SubSeq(d, 5, Len(d)))
                IN  IF rest = None THEN None
                    ELSE Some(<< a * 4 + b \div 16, (b % 16) * 16 + c \div 4,
                                 (c % 4) * 64 + e >> \o Unwrap(rest))

\* The keys "scaleId" and "data".
KeyScaleId == << 115, 99, 97, 108, 101, 73, 100 >>
KeyData == << 100, 97, 116, 97 >>

\* C12 as stated: every frame sent is the empty text of a heartbeat, or reads
\* as a JSON object of exactly the members scaleId and data, the first the
\* sender id of the forwarded datagram and the second the base64 text of its
\* payload, whatever characters the sender id and the payload hold.
C12_FramesWellFormed ==
  \A r \in out :
    IF r.kind = "heartbeat" THEN r.frame = << >>
    ELSE LET o == ReadFrame(r.frame)
             call == AsScaleMessage(ev.msg)
         IN  /\ call # None
             /\ o # None
             /\ Unwrap(o)[1] = KeyScaleId
             /\ Unwrap(o)[2] = Unwrap(call)[1]
             /\ Unwrap(o)[3] = KeyData
             /\ FromBase64(Unwrap(o)[4]) = Some(Unwrap(call)[2])

\* C13 as stated: in a forward pass, when the loop over the connections
\* ends, a connection the frame was due to (its filter allows the sender and
\* its last message differs from the payload) has the payload as its last
\* message exactly when the send on it succeeded; one whose send failed has
\* its last message as before, and is removed after the loop.
C13_SetOnSuccessOnly ==
  [][(ev'.op = "forward" /\ AsScaleMessage(ev'.msg) # None) =>
        LET s == Unwrap(AsScaleMessage(ev'.msg))[1]
            p == Unwrap(AsScaleMessage(ev'.msg))[2]
            after == forward_message(server, ev'.msg, Failed(out')).looped
        IN  \A c \in Live :
              (/\ FilterAllows(server.connections[c], s)
               /\ server.connections[c].last_message_sent # Some(p)) =>
                /\ after.connections[c].last_message_sent = Some(p)
                     <=> c \notin Failed(out')
                /\ c \in Failed(out') =>
                     /\ after.connections[c].last_message_sent
                          = server.connections[c].last_message_sent
                     /\ c \notin DOMAIN server'.connections
    ]_vars

\* Where the read loop of a connection is, "None" before it is spawned.
RlAt(id) == IF id \in DOMAIN rl THEN rl[id] ELSE "None"

\* C14: a read loop starts in Reading, when its connection is accepted; it
\* leaves Reading only for Closed, on a close frame or a read error of its
\* own connection; remove_connection is called by a read loop only from
\* Closed, for its own id, which ends the thread, so at most once and never
\* while Reading; and while the process runs, a read loop in Closed
\* eventually makes the call.
C14_ReadLoopExit ==
  /\ [][/\ \A id \in DOMAIN rl' :
             LET old == RlAt(id)
                 new == rl'[id]
             IN  /\ old = "None" =>
                      new = "Reading" /\ ev'.op = "accept" /\ ev'.id = id
                 /\ (old = "Reading" /\ new # old) =>
                      /\ new = "Closed"
                      /\ ev'.op \in {"close", "read_err"} /\ ev'.id = id
                 /\ (old = "Closed" /\ new # old) =>
                      new = "Done" /\ ev'.op = "exit" /\ ev'.id = id
                 /\ old = "Done" => new = "Done"
        /\ DOMAIN rl \subseteq DOMAIN rl'
        /\ ev'.op = "exit" =>
             /\ rl[ev'.id] = "Closed" /\ rl'[ev'.id] = "Done"
             /\ server' = remove_connection(server, ev'.id).self
             /\ ev'.id \notin DOMAIN server'.connections
        /\ ev'.op \in {"close", "read_err"} => server' = server
      ]_vars
  /\ \A id \in 0..(BeatConn - 1) :
       (RlAt(id) = "Closed") ~> (RlAt(id) = "Done" \/ ~Running)

\* A read loop has left its loop and removed its own connection, which was
\* still registered.
C14_Witness ==
  /\ ev.op = "exit"
  /\ rl[ev.id] = "Done"
  /\ ev.closed = {ev.id}

\* C15: a ping leaves its read loop in Reading and changes neither the
\* server nor any read loop; and when a forward_message call repeats the call
\* before it, a connection registered at both whose read loop processed
\* pings in between, and no frame other than ping or close, is sent no frame
\* by the second call.
C15_PingInert ==
  /\ [][ev'.op = "ping" =>
          /\ rl[ev'.id] = "Reading"
          /\ rl' = rl
          /\ server' = server
      ]_vars
  /\ [](\A c \in prev.between \cap prev.again \cap Live : c \notin prev.sent)

\* A frame was sent to a connection, its read loop processed a ping, and
\* the same datagram forwarded again was not sent to it.
C15_Witness ==
  \E c \in (prev.between \cap prev.first \cap Live) \ prev.sent :
    server.connections[c].last_message_sent = Some(Unwrap(prev.call)[2])

\* C16: in a forward pass for a sender id and a payload, a connection whose
\* filter does not hold the sender id, or whose last message equals the
\* payload, is sent nothing, stays registered, and keeps its last message
\* and its filter.
C16_OthersUntouched ==
  [][(ev'.op = "forward" /\ AsScaleMessage(ev'.msg) # None) =>
        LET s == Unwrap(AsScaleMessage(ev'.msg))[1]
            p == Unwrap(AsScaleMessage(ev'.msg))[2]
        IN  \A c \in Live :
              (\/ ~FilterAllows(server.connections[c], s)
               \/ server.connections[c].last_message_sent = Some(p)) =>
                /\ \A r \in out' : r.id # c
                /\ c \notin ev'.closed
                /\ c \in DOMAIN server'.connections
                /\ server'.connections[c] = server.connections[c]
    ]_vars

\* A forward pass sent nothing: one connection's filter does not hold the
\* sender, and its last message is not the payload; the other had been sent
\* the same payload last.
C16_Witness ==
  /\ ev.op = "forward"
  /\ AsScaleMessage(ev.msg) # None
  /\ out = {}
  /\ \E c1 \in Live, c2 \in Live :
       LET s == Unwrap(AsScaleMessage(ev.msg))[1]
           p == Unwrap(AsScaleMessage(ev.msg))[2]
       IN  /\ ~FilterAllows(server.connections[c1], s)
           /\ server.connections[c1].last_message_sent # Some(p)
           /\ FilterAllows(server.connections[c2], s)
           /\ server.connections[c2].last_message_sent = Some(p)

\* C17: publishing a decoded datagram puts it once on the channel of every
\* observer of the map whose receiving end is alive, so once at the back of
\* the forwarder's channel; the observers whose receiving end is gone, and
\* only they, are out of the map after the pass, having been passed over by
\* the same pass; and the id counter is left alone.
C17_PublishPass ==
  [][ev'.op = "recv" =>
        /\ ev'.delivered = listener.observers \ rx_gone
        /\ ev'.removed = listener.observers \cap rx_gone
        /\ listener'.observers = listener.observers \ ev'.removed
        /\ listener'.next_observer_id = listener.next_observer_id
        /\ IF fwd_id # None /\ fwd_id \subseteq listener.observers
           THEN /\ Len(chan') = Len(chan) + 1
                /\ SubSeq(chan', 1, Len(chan)) = chan
                /\ chan'[Len(chan')].n = recv_n'
           ELSE chan' = chan
    ]_vars

\* A pass delivered to the forwarder and to another observer and removed an
\* observer whose receiving end was gone.
C17_Witness ==
  /\ ev.op = "recv"
  /\ ev.removed # {}
  /\ fwd_id # None /\ fwd_id \subseteq ev.delivered
  /\ ev.delivered \ fwd_id # {}
  /\ chan # << >>

\* C18: while the process runs, some thread can take a step, so the threads
\* never all wait for a mutex; the listener's thread, holding the listener's
\* mutex, can publish whoever holds the server's mutex; the main thread,
\* holding the server's mutex in observer_scale_listener, gets the listener's
\* mutex as soon as it is free; and no other thread holds one mutex while it
\* takes another: with the listener's mutex free and the main thread outside
\* observer_scale_listener, a heartbeat pass can start.
C18_DeadlockFree ==
  /\ Running => ENABLED NextLocks
  /\ (Running /\ pending # None) => ENABLED RecvDatagram(Locks)
  /\ (main_pc = "observe_add" /\ ListenerLockFree) => ENABLED ObserveAdd(Locks)
  /\ (Running /\ HeartbeatStarted /\ main_pc # "observe_add")
       => ENABLED SendHeartbeats(Locks)

\* The main thread holds the server's mutex and waits for the listener's,
\* which the listener's thread holds to publish a datagram.
C18_Witness ==
  /\ main_pc = "observe_add"
  /\ pending # None

C20_StaleReadLoop ==
  [][ev'.op \in {"other", "exit"} =>
        /\ \A c \in Live \ {ev'.id} :
             /\ c \in DOMAIN server'.connections
             /\ server'.connections[c] = server.connections[c]
        /\ DOMAIN server'.connections \subseteq Live
        /\ server'.next_connection_id = server.next_connection_id
        /\ ev'.id \notin Live =>
             /\ server' = server
             /\ StepClosed(ev') = {}
             /\ closes[ev'.id] = 1 /\ closes'[ev'.id] = 1
    ]_vars

\* The read loop of a connection removed after a failed send left its loop
\* and called remove_connection, while a connection registered later
\* remembered the payload sent to it.
C20_Witness ==
  /\ ev.op = "exit"
  /\ ev.closed = {}
  /\ closes[ev.id] = 1
  /\ \E c \in Live : c > ev.id /\ server.connections[c].last_message_sent # None

====
